---- MODULE Spec2Model ----
(***************************************************************************)
(* The multiline-comment-style rule of eslint-plugin-js                    *)
(* (rules/multiline-comment-style/multiline-comment-style.ts).             *)
(*                                                                         *)
(* Strings are sequences of one-character strings; ranges and columns are  *)
(* 0-based and lines 1-based, as in the source.  A token's range is the    *)
(* pair <<range[0], range[1]>> of the source, so range[0] of the source is *)
(* written range[1] here and range[1] is written range[2].                 *)
(***************************************************************************)
EXTENDS Integers, Sequences, FiniteSets, TLC

VARIABLES sourceCode, option, checkJSDoc, commentGroups, checkedGroups, reports, pc,
          rtLines, rtAnchor, rtForm, rtOut,
          bbValue, bbAnchor, bbOut

vars == <<sourceCode, option, checkJSDoc, commentGroups, checkedGroups, reports, pc,
          rtLines, rtAnchor, rtForm, rtOut, bbValue, bbAnchor, bbOut>>

----------------------------------------------------------------------------
(* Bounds of the checked inputs. *)

\* Most tokens (comments and code) in a source unit of the grouping scenarios.
MaxItems == 3

\* Most lines of a block comment, and most comments of a run of line comments.
MaxLines == 3

\* Most content lines handed to a converter in the round-trip scenarios.
MaxContent == 2

\* Most lines of a block comment handed to processBareBlockComment alone.
MaxBare == 3

----------------------------------------------------------------------------
(* Characters and JavaScript string primitives. *)

NL == "\n"

\* \s on one physical line: space and tab.
WS == {" ", "\t"}

Min(a, b) == IF a < b THEN a ELSE b

Max(a, b) == IF a > b THEN a ELSE b

\* String.prototype.slice(a, b) / Array.prototype.slice(a, b).
slice(s, a, b) ==
    LET n == Len(s)
        from == IF a < 0 THEN Max(n + a, 0) ELSE Min(a, n)
        to == IF b < 0 THEN Max(n + b, 0) ELSE Min(b, n)
    IN IF from >= to THEN <<>> ELSE SubSeq(s, from + 1, to)

\* String.prototype.slice(a).
sliceFrom(s, a) == slice(s, a, Len(s))

\* String.prototype.startsWith.
startsWith(s, p) == Len(s) >= Len(p) /\ SubSeq(s, 1, Len(p)) = p

\* String.prototype.includes.
includes(s, p) == \E i \in 1..(Len(s) - Len(p) + 1) : SubSeq(s, i, i + Len(p) - 1) = p

\* value.split(LINEBREAK_MATCHER)
RECURSIVE split(_)
split(s) ==
    IF \E i \in 1..Len(s) : s[i] = NL
    THEN LET i == CHOOSE k \in 1..Len(s) : s[k] = NL /\ \A j \in 1..(k - 1) : s[j] # NL
         IN <<SubSeq(s, 1, i - 1)>> \o split(SubSeq(s, i + 1, Len(s)))
    ELSE <<s>>

\* Array.prototype.join
RECURSIVE join(_, _)
join(ss, sep) ==
    IF ss = <<>> THEN <<>>
    ELSE IF Len(ss) = 1 THEN ss[1]
    ELSE ss[1] \o sep \o join(Tail(ss), sep)

\* Array.prototype.map(line => f(line)).flat() over a sequence of sequences.
RECURSIVE flat(_)
flat(ss) == IF ss = <<>> THEN <<>> ELSE Head(ss) \o flat(Tail(ss))

----------------------------------------------------------------------------
(* The regular expressions of the rule. *)

\* Length of the match of /^\s*/ : the leading run of whitespace.
leadingWs(s) ==
    CHOOSE n \in 0..Len(s) :
        /\ \A i \in 1..n : s[i] \in WS
        /\ (n = Len(s) \/ s[n + 1] \notin WS)

\* /^\s*$/u.test(line)
isBlank(line) == \A i \in 1..Len(line) : line[i] \in WS

\* line.trim().length
hasText(line) == ~isBlank(line)

\* line.replace(/^\s*$/u, '')
blankify(line) == IF isBlank(line) THEN <<>> ELSE line

\* /^\*?\s*$/u.test(line)
isOpeningLineEmpty(line) ==
    IF startsWith(line, <<"*">>) THEN isBlank(Tail(line)) ELSE isBlank(line)

\* /^\*\s*$/u.test(line)
isJSDocOpening(line) == startsWith(line, <<"*">>) /\ isBlank(Tail(line))

\* /^\s* /u.test(line): a space somewhere in the leading run of whitespace.
hasLeadingSpace(line) == \E i \in 1..leadingWs(line) : line[i] = " "

\* /^\s*\//u.test(line)
startsWithSlash(line) ==
    LET n == leadingWs(line) IN n < Len(line) /\ line[n + 1] = "/"

\* Length of the match of /^(\s*\*?\s*)/u: the line offset of a bare block line.
lineOffsetLen(line) ==
    LET n == leadingWs(line)
    IN IF n < Len(line) /\ line[n + 1] = "*"
       THEN n + 1 + leadingWs(sliceFrom(line, n + 1))
       ELSE n

\* The leftmost match of /\s*\*/u in line, as <<start, end>> (0-based, end exclusive),
\* or <<>> when there is none.
starMatch(line) ==
    LET starts == {i \in 0..(Len(line) - 1) :
                      LET n == leadingWs(sliceFrom(line, i))
                      IN i + n < Len(line) /\ line[i + n + 1] = "*"}
    IN IF starts = {} THEN <<>>
       ELSE LET i == CHOOSE k \in starts : \A j \in starts : k <= j
            IN <<i, i + leadingWs(sliceFrom(line, i)) + 1>>

\* line.replace(/\s*\*/u, '')
removeStar(line) ==
    LET m == starMatch(line)
    IN IF m = <<>> THEN line ELSE slice(line, 0, m[1]) \o sliceFrom(line, m[2])

\* line.replace(/\s*\* ?/u, '')
removeStarAndSpace(line) ==
    LET m == starMatch(line)
    IN IF m = <<>> THEN line
       ELSE LET e == IF m[2] < Len(line) /\ line[m[2] + 1] = " " THEN m[2] + 1 ELSE m[2]
            IN slice(line, 0, m[1]) \o sliceFrom(line, e)

\* lineTextToAlignWith.match(/^(\s*(?:\/?\*)?(\s*))/u): [prefix, initialOffset].
alignMatch(line) ==
    LET n == leadingWs(line)
        k == IF n + 1 < Len(line) /\ line[n + 1] = "/" /\ line[n + 2] = "*" THEN n + 2
             ELSE IF n < Len(line) /\ line[n + 1] = "*" THEN n + 1
             ELSE n
        w == leadingWs(sliceFrom(line, k))
    IN [prefix |-> slice(line, 0, k + w), initialOffset |-> slice(line, k, k + w)]

----------------------------------------------------------------------------
(* The source model handed to the rule: text, physical lines, and the      *)
(* tokens and comments in source order, each with its range and location.  *)

\* The text of one token: a comment with its delimiters, code as written.
tokenText(type, value) ==
    CASE type = "Line" -> <<"/", "/">> \o value
      [] type = "Block" -> <<"/", "*">> \o value \o <<"*", "/">>
      [] type = "Shebang" -> <<"#", "!">> \o value
      [] OTHER -> value

\* The location {line, column} of index idx of the text.
locOf(text, idx) ==
    LET breaks == {i \in 1..idx : text[i] = NL}
        lineStart == IF breaks = {} THEN 0 ELSE CHOOSE i \in breaks : \A j \in breaks : j <= i
    IN [line |-> 1 + Cardinality(breaks), column |-> idx - lineStart]

\* Lays the items out into text: an item goes on the line of the previous one
\* ("same"), on the next line ("next") or after one empty line ("blank"), a new
\* line starting with the indentation.
RECURSIVE layout(_, _, _, _)
layout(items, indent, text, toks) ==
    IF items = <<>> THEN [text |-> text, toks |-> toks]
    ELSE LET it == Head(items)
             lead == IF toks = <<>> THEN indent
                     ELSE IF it.sep = "same" THEN <<" ">>
                     ELSE IF it.sep = "next" THEN <<NL>> \o indent
                     ELSE <<NL, NL>> \o indent
             body == tokenText(it.type, it.value)
             start == Len(text) + Len(lead)
             tok == [type |-> it.type, value |-> it.value,
                     range |-> <<start, start + Len(body)>>]
         IN layout(Tail(items), indent, text \o lead \o body, Append(toks, tok))

\* The sourceCode object of a laid-out unit.
sourceOf(items, indent) ==
    LET l == layout(items, indent, <<>>, <<>>)
    IN [text |-> l.text,
        lines |-> split(l.text),
        tokens |-> [i \in 1..Len(l.toks) |->
                      [type |-> l.toks[i].type, value |-> l.toks[i].value,
                       range |-> l.toks[i].range,
                       loc |-> [start |-> locOf(l.text, l.toks[i].range[1]),
                                end |-> locOf(l.text, l.toks[i].range[2])]]]]

isComment(tok) == tok.type \in {"Line", "Block", "Shebang"}

\* sourceCode.getAllComments()
getAllComments(sc) == SelectSeq(sc.tokens, isComment)

\* The position of a token among the tokens and comments of the unit.
tokenIndex(sc, tok) == CHOOSE i \in 1..Len(sc.tokens) : sc.tokens[i].range = tok.range

\* sourceCode.getTokenBefore(tok, { includeComments: true }): <<>> is null.
getTokenBefore(sc, tok) ==
    LET i == tokenIndex(sc, tok) IN IF i > 1 THEN <<sc.tokens[i - 1]>> ELSE <<>>

\* sourceCode.getTokenAfter(tok, { includeComments: true }): <<>> is null.
getTokenAfter(sc, tok) ==
    LET i == tokenIndex(sc, tok)
    IN IF i < Len(sc.tokens) THEN <<sc.tokens[i + 1]>> ELSE <<>>

\* sourceCode.getIndexFromLoc({ line, column })
RECURSIVE getIndexFromLoc(_, _, _)
getIndexFromLoc(sc, line, column) ==
    IF line = 1 THEN column
    ELSE Len(sc.lines[line - 1]) + 1 + getIndexFromLoc(sc, line - 1, column)

\* COMMENTS_IGNORE_PATTERN.test(value): a directive comment.  The directive
\* keywords (eslint, jshint, jslint, istanbul, global, exported, jscs) are
\* written as the one character "E".
COMMENTS_IGNORE_PATTERN(value) ==
    LET n == leadingWs(value) IN n < Len(value) /\ value[n + 1] = "E"

----------------------------------------------------------------------------
(* Helpers of the rule. *)

isStarredCommentLine(line) ==
    LET n == leadingWs(line) IN n < Len(line) /\ line[n + 1] = "*"

isStarredBlockComment(commentGroup) ==
    LET firstComment == commentGroup[1]
        lines == split(firstComment.value)
    IN /\ firstComment.type = "Block"
       /\ Len(lines) > 0
       /\ \A i \in 1..Len(lines) :
             IF i = 1 \/ i = Len(lines) THEN isBlank(lines[i])
             ELSE isStarredCommentLine(lines[i])

isJSDocComment(commentGroup) ==
    LET firstComment == commentGroup[1]
        lines == split(firstComment.value)
    IN /\ firstComment.type = "Block"
       /\ isJSDocOpening(lines[1])
       /\ \A i \in 2..(Len(lines) - 1) : hasLeadingSpace(lines[i])
       /\ isBlank(lines[Len(lines)])

\* processSeparateLineComments without the removal of the leading space.
processSeparateLineCommentsAsIs(commentGroup) ==
    [i \in 1..Len(commentGroup) |-> commentGroup[i].value]

processSeparateLineComments(commentGroup) ==
    LET allLinesHaveLeadingSpace ==
            \A i \in 1..Len(commentGroup) :
                hasText(commentGroup[i].value) => startsWith(commentGroup[i].value, <<" ">>)
    IN [i \in 1..Len(commentGroup) |->
          IF allLinesHaveLeadingSpace /\ startsWith(commentGroup[i].value, <<" ">>)
          THEN Tail(commentGroup[i].value)
          ELSE commentGroup[i].value]

processStarredBlockComment(comment) ==
    LET all == split(comment.value)
        lines == [i \in 1..(Len(all) - 2) |-> blankify(all[i + 1])]
        allLinesHaveLeadingSpace ==
            \A i \in 1..Len(lines) :
                hasText(removeStar(lines[i])) => startsWith(removeStar(lines[i]), <<" ">>)
    IN [i \in 1..Len(lines) |->
          IF allLinesHaveLeadingSpace THEN removeStarAndSpace(lines[i])
          ELSE removeStar(lines[i])]

\* sourceCode.text.slice(comment.range[0] - comment.loc.start.column, comment.range[0])
getInitialOffset(sc, comment) ==
    slice(sc.text, comment.range[1] - comment.loc.start.column, comment.range[1])

\* The correction offset of processBareBlockComment: the longest tail of
\* leadingWhitespace by which a line other than the first falls short of it.
RECURSIVE bareOffset(_, _, _, _)
bareOffset(lines, i, leadingWhitespace, offset) ==
    IF i > Len(lines) THEN offset
    ELSE IF ~hasText(lines[i]) \/ i = 1
         THEN bareOffset(lines, i + 1, leadingWhitespace, offset)
    ELSE LET lineOffset == lineOffsetLen(lines[i])
             newOffset == sliceFrom(leadingWhitespace, lineOffset - Len(leadingWhitespace))
         IN IF lineOffset < Len(leadingWhitespace) /\ Len(newOffset) > Len(offset)
            THEN bareOffset(lines, i + 1, leadingWhitespace, newOffset)
            ELSE bareOffset(lines, i + 1, leadingWhitespace, offset)

\* bareLine keeping, of a longer offset, the excess over leadingWhitespace only.
bareLineNoCorrection(line, leadingWhitespace, offset) ==
    LET n == lineOffsetLen(line)
        lineOffset == slice(line, 0, n)
        lineContents == sliceFrom(line, n)
    IN IF n > Len(leadingWhitespace)
       THEN sliceFrom(lineOffset, Len(leadingWhitespace) - n) \o lineContents
       ELSE lineContents

\* The line processBareBlockComment returns for one line.
bareLine(line, leadingWhitespace, offset) ==
    LET n == lineOffsetLen(line)
        lineOffset == slice(line, 0, n)
        lineContents == sliceFrom(line, n)
    IN IF n > Len(leadingWhitespace)
       THEN sliceFrom(lineOffset, Len(leadingWhitespace) - (Len(offset) + n)) \o lineContents
       ELSE IF n < Len(leadingWhitespace)
       THEN sliceFrom(lineOffset, Len(leadingWhitespace)) \o lineContents
       ELSE lineContents

\* processBareBlockComment on the comment's value and the whitespace before it.
bareBlockLines(value, initialOffset) ==
    LET all == split(value)
        lines == [i \in 1..Len(all) |-> blankify(all[i])]
        leadingWhitespace == initialOffset \o <<" ", " ", " ">>
        offset == bareOffset(lines, 1, leadingWhitespace, <<>>)
    IN [i \in 1..Len(lines) |-> bareLine(lines[i], leadingWhitespace, offset)]

processBareBlockComment(sc, comment) ==
    bareBlockLines(comment.value, getInitialOffset(sc, comment))

getCommentLines(sc, commentGroup) ==
    LET firstComment == commentGroup[1]
    IN IF firstComment.type = "Line" THEN processSeparateLineComments(commentGroup)
       ELSE IF isStarredBlockComment(commentGroup) THEN processStarredBlockComment(firstComment)
       ELSE processBareBlockComment(sc, firstComment)

\* `${initialOffset} * ${line}` of every line.
starredLines(initialOffset, commentLinesList) ==
    [i \in 1..Len(commentLinesList) |-> initialOffset \o <<" ", "*", " ">> \o commentLinesList[i]]

convertToStarredBlock(sc, firstComment, commentLinesList) ==
    LET initialOffset == getInitialOffset(sc, firstComment)
    IN <<"/", "*", NL>> \o join(starredLines(initialOffset, commentLinesList), <<NL>>)
         \o <<NL>> \o initialOffset \o <<" ", "*", "/">>

convertToSeparateLines(sc, firstComment, commentLinesList) ==
    join([i \in 1..Len(commentLinesList) |-> <<"/", "/", " ">> \o commentLinesList[i]],
         <<NL>> \o getInitialOffset(sc, firstComment))

convertToBlock(sc, firstComment, commentLinesList) ==
    <<"/", "*", " ">>
      \o join(commentLinesList, <<NL>> \o getInitialOffset(sc, firstComment) \o <<" ", " ", " ">>)
      \o <<" ", "*", "/">>

----------------------------------------------------------------------------
(* The checkers: each returns the reports of one comment group, in order.  *)
(* A report is [messageId, loc, fix]; fix is <<>> when the fixer returns   *)
(* null and <<[range, text]>> otherwise (an insertion has an empty range). *)

\* commentLines.some(value => value.includes('*/'))
hasEndOfBlock(commentLines) ==
    \E i \in 1..Len(commentLines) : includes(commentLines[i], <<"*", "/">>)

\* expectedBlockFix without the test for a line that starts with "/".
expectedBlockFixAlways(sc, commentGroup, commentLines) ==
    <<[range |-> <<commentGroup[1].range[1], commentGroup[Len(commentGroup)].range[2]>>,
       text |-> convertToStarredBlock(sc, commentGroup[1], commentLines)]>>

\* The fix of expectedBlock under starred-block.
expectedBlockFix(sc, commentGroup, commentLines) ==
    LET firstComment == commentGroup[1]
        range == <<firstComment.range[1], commentGroup[Len(commentGroup)].range[2]>>
    IN IF \E i \in 1..Len(commentLines) : startsWith(commentLines[i], <<"/">>)
       THEN <<>>
       ELSE <<[range |-> range,
               text |-> convertToStarredBlock(sc, firstComment, commentLines)]>>

\* expectedLinePrefix without the space before the star.
expectedLinePrefixNoSpace(sc, firstComment) == getInitialOffset(sc, firstComment) \o <<"*">>

\* `${expectedLeadingWhitespace} *`
expectedLinePrefix(sc, firstComment) == getInitialOffset(sc, firstComment) \o <<" ", "*">>

\* The startNewline report of a block comment, if any.
startNewlineReports(sc, firstComment) ==
    LET lines == split(firstComment.value)
        start == IF startsWith(firstComment.value, <<"*">>)
                 THEN firstComment.range[1] + 1 ELSE firstComment.range[1]
    IN IF ~isOpeningLineEmpty(lines[1])
       THEN <<[messageId |-> "startNewline",
               loc |-> [start |-> firstComment.loc.start,
                        end |-> [line |-> firstComment.loc.start.line,
                                 column |-> firstComment.loc.start.column + 2]],
               fix |-> <<[range |-> <<start + 2, start + 2>>,
                          text |-> <<NL>> \o expectedLinePrefix(sc, firstComment)]>>]>>
       ELSE <<>>

\* The endNewline report of a block comment, if any.
endNewlineReports(sc, firstComment) ==
    LET lines == split(firstComment.value)
    IN IF ~isBlank(lines[Len(lines)])
       THEN <<[messageId |-> "endNewline",
               loc |-> [start |-> [line |-> firstComment.loc.end.line,
                                   column |-> firstComment.loc.end.column - 2],
                        end |-> firstComment.loc.end],
               fix |-> <<[range |-> <<firstComment.range[2] - 2, firstComment.range[2]>>,
                          text |-> <<NL>> \o expectedLinePrefix(sc, firstComment) \o <<"/">>]>>]>>
       ELSE <<>>

\* The offset the missingStar fixer puts after the star: taken from the first line
\* of the comment that has text; `undefined` when the comment has no such line.
missingStarOffset(sc, firstComment, lineText) ==
    LET lines == split(firstComment.value)
        commentTextPrefix == slice(lineText, 0, leadingWs(lineText))
        withText == {idx \in 0..(Len(lines) - 1) : hasText(lines[idx + 1])}
    IN IF withText = {} THEN <<"u", "n", "d", "e", "f", "i", "n", "e", "d">>
       ELSE LET idx == CHOOSE k \in withText : \A j \in withText : k <= j
                lineTextToAlignWith == sc.lines[firstComment.loc.start.line + idx]
                m == alignMatch(lineTextToAlignWith)
                offset == sliceFrom(commentTextPrefix, Len(m.prefix)) \o m.initialOffset
            IN IF startsWithSlash(lineText) /\ Len(offset) = 0 THEN offset \o <<" ">>
               ELSE offset

\* lineFixRange replacing the whole line.
lineFixRangeWholeLine(sc, lineNumber, errorType) ==
    LET lineStartIndex == getIndexFromLoc(sc, lineNumber, 0)
    IN <<lineStartIndex, lineStartIndex + Len(sc.lines[lineNumber])>>

\* The range the fixer of a line report replaces: the line's /^(\s*\*)/ under
\* alignment, its /^(\s*)/ under missingStar.
lineFixRange(sc, lineNumber, errorType) ==
    LET lineText == sc.lines[lineNumber]
        lineStartIndex == getIndexFromLoc(sc, lineNumber, 0)
        commentTextPrefix == IF errorType = "alignment" THEN leadingWs(lineText) + 1
                             ELSE leadingWs(lineText)
    IN <<lineStartIndex, lineStartIndex + commentTextPrefix>>

\* The report of one physical line of a block comment, if any.
lineReports(sc, firstComment, lineNumber) ==
    LET lineText == sc.lines[lineNumber]
        errorType == IF isStarredCommentLine(lineText) THEN "alignment" ELSE "missingStar"
        prefix == expectedLinePrefix(sc, firstComment)
    IN IF ~startsWith(lineText, prefix)
       THEN <<[messageId |-> errorType,
               loc |-> [start |-> [line |-> lineNumber, column |-> 0],
                        end |-> [line |-> lineNumber, column |-> Len(lineText)]],
               fix |-> <<[range |-> lineFixRange(sc, lineNumber, errorType),
                          text |-> IF errorType = "alignment" THEN prefix
                                   ELSE prefix \o missingStarOffset(sc, firstComment, lineText)]>>]>>
       ELSE <<>>

\* firstCheckedLine starting at the line of the opening delimiter.
firstCheckedLineFromStart(firstComment) == firstComment.loc.start.line

\* The first line the line-by-line check of a block comment visits.
firstCheckedLine(firstComment) == firstComment.loc.start.line + 1

\* commentGroupCheckers['starred-block']
checkStarredBlock(sc, commentGroup) ==
    LET firstComment == commentGroup[1]
        commentLines == getCommentLines(sc, commentGroup)
    IN IF hasEndOfBlock(commentLines) THEN <<>>
       ELSE IF Len(commentGroup) > 1
       THEN <<[messageId |-> "expectedBlock",
               loc |-> [start |-> firstComment.loc.start,
                        end |-> commentGroup[Len(commentGroup)].loc.end],
               fix |-> expectedBlockFix(sc, commentGroup, commentLines)]>>
       ELSE startNewlineReports(sc, firstComment)
              \o endNewlineReports(sc, firstComment)
              \o flat([k \in 1..(firstComment.loc.end.line - firstCheckedLine(firstComment) + 1) |->
                         lineReports(sc, firstComment, firstCheckedLine(firstComment) + k - 1)])

\* separateLinesContent without the removal of the two JSDoc delimiter lines.
separateLinesContentUntrimmed(sc, commentGroup) == getCommentLines(sc, commentGroup)

\* The content lines the separate-lines checker converts.
separateLinesContent(sc, commentGroup) ==
    LET commentLines == getCommentLines(sc, commentGroup)
    IN IF isJSDocComment(commentGroup) THEN slice(commentLines, 1, Len(commentLines) - 1)
       ELSE commentLines

\* commentGroupCheckers['separate-lines']
checkSeparateLines(sc, jsdoc, commentGroup) ==
    LET firstComment == commentGroup[1]
        isJSDoc == isJSDocComment(commentGroup)
        tokenAfter == getTokenAfter(sc, firstComment)
    IN IF firstComment.type # "Block" \/ (~jsdoc /\ isJSDoc) THEN <<>>
       ELSE IF tokenAfter # <<>> /\ firstComment.loc.end.line = tokenAfter[1].loc.start.line
       THEN <<>>
       ELSE <<[messageId |-> "expectedLines",
               loc |-> [start |-> firstComment.loc.start,
                        end |-> [line |-> firstComment.loc.start.line,
                                 column |-> firstComment.loc.start.column + 2]],
               fix |-> <<[range |-> firstComment.range,
                          text |-> convertToSeparateLines(sc, firstComment,
                                       separateLinesContent(sc, commentGroup))]>>]>>

\* expectsBlock without the test for the end-of-block sequence.
expectsBlockUnguarded(firstComment, commentLines) ==
    firstComment.type = "Line" /\ Len(commentLines) > 1

\* Whether the bare-block checker reports a run of line comments.
expectsBlock(firstComment, commentLines) ==
    /\ firstComment.type = "Line"
    /\ Len(commentLines) > 1
    /\ ~hasEndOfBlock(commentLines)

\* commentGroupCheckers['bare-block']
checkBareBlock(sc, commentGroup) ==
    IF isJSDocComment(commentGroup) THEN <<>>
    ELSE LET firstComment == commentGroup[1]
             commentLines == getCommentLines(sc, commentGroup)
         IN (IF expectsBlock(firstComment, commentLines)
             THEN <<[messageId |-> "expectedBlock",
                     loc |-> [start |-> firstComment.loc.start,
                              end |-> commentGroup[Len(commentGroup)].loc.end],
                     fix |-> <<[range |-> <<firstComment.range[1],
                                            commentGroup[Len(commentGroup)].range[2]>>,
                                text |-> convertToBlock(sc, firstComment, commentLines)]>>]>>
             ELSE <<>>)
            \o (IF isStarredBlockComment(commentGroup)
                THEN <<[messageId |-> "expectedBareBlock",
                        loc |-> [start |-> firstComment.loc.start,
                                 end |-> [line |-> firstComment.loc.start.line,
                                          column |-> firstComment.loc.start.column + 2]],
                        fix |-> <<[range |-> firstComment.range,
                                   text |-> convertToBlock(sc, firstComment, commentLines)]>>]>>
                ELSE <<>>)

\* commentGroupCheckers[option]
checkGroup(sc, opt, jsdoc, commentGroup) ==
    CASE opt = "starred-block" -> checkStarredBlock(sc, commentGroup)
      [] opt = "separate-lines" -> checkSeparateLines(sc, jsdoc, commentGroup)
      [] opt = "bare-block" -> checkBareBlock(sc, commentGroup)

----------------------------------------------------------------------------
(* Program(): filter, group, discard, check. *)

\* The third filter: no token before the comment ends on the line it starts on.
notInline(sc, comment) ==
    LET tokenBefore == getTokenBefore(sc, comment)
    IN tokenBefore = <<>> \/ tokenBefore[1].loc.end.line < comment.loc.start.line

\* The comments left by the three filters.
filteredComments(sc) ==
    LET keep(comment) == /\ comment.type # "Shebang"
                         /\ ~COMMENTS_IGNORE_PATTERN(comment.value)
                         /\ notInline(sc, comment)
    IN SelectSeq(getAllComments(sc), keep)

\* joinsLastGroup without the test that the token before is the previous comment.
joinsLastGroupAnyTokenBefore(sc, commentList, index) ==
    LET comment == commentList[index]
        tokenBefore == getTokenBefore(sc, comment)
    IN /\ comment.type = "Line"
       /\ index > 1
       /\ commentList[index - 1].type = "Line"
       /\ tokenBefore # <<>>
       /\ tokenBefore[1].loc.end.line = comment.loc.start.line - 1

\* Whether the fold appends commentList[index] to the last group.
joinsLastGroup(sc, commentList, index) ==
    LET comment == commentList[index]
        tokenBefore == getTokenBefore(sc, comment)
    IN /\ comment.type = "Line"
       /\ index > 1
       /\ commentList[index - 1].type = "Line"
       /\ tokenBefore # <<>>
       /\ tokenBefore[1].loc.end.line = comment.loc.start.line - 1
       /\ tokenBefore[1] = commentList[index - 1]

\* The reduce over the filtered comments, from index on.
RECURSIVE groupComments(_, _, _, _)
groupComments(sc, commentList, index, groups) ==
    IF index > Len(commentList) THEN groups
    ELSE IF joinsLastGroup(sc, commentList, index)
         THEN groupComments(sc, commentList, index + 1,
                  [groups EXCEPT ![Len(groups)] = Append(@, commentList[index])])
    ELSE groupComments(sc, commentList, index + 1, Append(groups, <<commentList[index]>>))

\* The last filter drops a group of one comment that starts and ends on one line.
isSingleLineGroup(commentGroup) ==
    Len(commentGroup) = 1 /\ commentGroup[1].loc.start.line = commentGroup[1].loc.end.line

\* keptGroup without the last filter.
keptGroupAlways(commentGroup) == TRUE

keptGroup(commentGroup) == ~isSingleLineGroup(commentGroup)

----------------------------------------------------------------------------
(* The checked inputs. *)

\* The configurations the options schema admits: checkJSDoc comes with
\* separate-lines only.
Configs ==
    {[option |-> "starred-block", checkJSDoc |-> FALSE],
     [option |-> "bare-block", checkJSDoc |-> FALSE],
     [option |-> "separate-lines", checkJSDoc |-> FALSE],
     [option |-> "separate-lines", checkJSDoc |-> TRUE]}

Indents == {<<>>, <<" ">>}

\* Sequences over S of length lo..hi.
SeqsOf(S, lo, hi) == UNION {[1..n -> S] : n \in lo..hi}

\* Tokens of the grouping scenarios: a line comment, a directive line comment, a
\* block comment on one line, a block comment on three lines, a code token.
UnitTokens ==
    {[type |-> "Line", value |-> <<" ", "a">>],
     [type |-> "Line", value |-> <<" ", "E">>],
     [type |-> "Block", value |-> <<" ", "a", " ">>],
     [type |-> "Block", value |-> <<NL, "*", " ", "a", NL>>],
     [type |-> "Identifier", value |-> <<"x">>]}

UnitItems ==
    {[type |-> t.type, value |-> t.value, sep |-> p] :
        t \in UnitTokens, p \in {"same", "next", "blank"}}
    \cup {[type |-> "Shebang", value |-> <<"a">>, sep |-> "next"]}

\* A unit the tokenizer can produce: a hashbang comes first only, the first item
\* starts the text, and nothing follows a line comment on its line.
isUnit(items) ==
    /\ items[1].sep = "next"
    /\ \A i \in 2..Len(items) :
          /\ items[i].type # "Shebang"
          /\ items[i].sep = "same" => items[i - 1].type \notin {"Line", "Shebang"}

Units == {items \in SeqsOf(UnitItems, 1, MaxItems) : isUnit(items)}

\* Lines of a block comment's value: the one after the opening delimiter, the
\* ones in between, and the one before the closing delimiter.
FirstLines == {<<>>, <<"*">>, <<" ", "a">>, <<"*", " ", "a">>}

InteriorLines ==
    {<<>>, <<" ", "a">>, <<" ", "*", " ", "a">>, <<" ", " ", "*", " ", "a">>,
     <<"*", " ", "a">>, <<" ", "/", "a">>, <<" ", "*">>, <<" ", " ", " ", "a">>,
     <<"\t", "*", " ", "a">>}

LastLines == {<<>>, <<" ">>, <<" ", " ">>, <<" ", "a">>, <<" ", "*", " ", "a", " ">>}

BlockValues ==
    {join(<<f>> \o m \o <<l>>, <<NL>>) :
        f \in FirstLines, m \in SeqsOf(InteriorLines, 0, MaxLines - 2), l \in LastLines}

\* Values of the line comments of a run.
LineValues ==
    {<<"a">>, <<" ", "a">>, <<" ", "*", "/">>, <<" ", "/", "a">>, <<>>}

\* One block comment, alone or with a code token after it on its last line.
BlockScenarios ==
    {<<[type |-> "Block", value |-> v, sep |-> "next"]>> \o after :
        v \in BlockValues,
        after \in {<<>>, <<[type |-> "Identifier", value |-> <<"x">>, sep |-> "same"]>>}}

\* One run of line comments on consecutive lines.
LineScenarios ==
    {[i \in 1..Len(vs) |-> [type |-> "Line", value |-> vs[i], sep |-> "next"]] :
        vs \in SeqsOf(LineValues, 2, MaxLines)}

Sources ==
    {sourceOf(items, <<>>) : items \in Units}
    \cup {sourceOf(items, indent) : items \in BlockScenarios \cup LineScenarios,
                                     indent \in Indents}

----------------------------------------------------------------------------
(* The rule as a state machine: create(context), then the Program handler. *)

NoRoundTrip ==
    /\ rtLines = <<>> /\ rtAnchor = <<>> /\ rtForm = "none" /\ rtOut = <<>>

NoBare ==
    /\ bbValue = <<>> /\ bbAnchor = <<>> /\ bbOut = <<>>

NoRule ==
    /\ sourceCode = sourceOf(<<>>, <<>>)
    /\ option = "starred-block" /\ checkJSDoc = FALSE
    /\ commentGroups = <<>> /\ checkedGroups = <<>> /\ reports = <<>>

Init ==
    /\ sourceCode \in Sources
    /\ \E c \in Configs : option = c.option /\ checkJSDoc = c.checkJSDoc
    /\ commentGroups = <<>>
    /\ checkedGroups = <<>>
    /\ reports = <<>>
    /\ pc = "created"
    /\ NoRoundTrip
    /\ NoBare

\* Program(): commentGroups is the result of the reduce, checkedGroups the groups
\* left by the last filter, reports[i] the reports of checkedGroups[i].
Program ==
    /\ pc = "created"
    /\ LET groups == groupComments(sourceCode, filteredComments(sourceCode), 1, <<>>)
           kept == SelectSeq(groups, keptGroup)
       IN /\ commentGroups' = groups
          /\ checkedGroups' = kept
          /\ reports' = [i \in 1..Len(kept) |->
                           checkGroup(sourceCode, option, checkJSDoc, kept[i])]
    /\ pc' = "done"
    /\ UNCHANGED <<sourceCode, option, checkJSDoc,
                   rtLines, rtAnchor, rtForm, rtOut, bbValue, bbAnchor, bbOut>>

Next == Program

Spec == Init /\ [][Next]_vars

----------------------------------------------------------------------------
(* The converters followed by the normalizer, on their own: a content line *)
(* list is rendered after an anchor indentation, the rendered text is read *)
(* back as comment tokens, and getCommentLines normalizes the group.       *)

\* Index of the first "*/" of text at or after index from, or Len(text) if none.
endOfBlock(text, from) ==
    LET ends == {i \in from..(Len(text) - 2) : slice(text, i, i + 2) = <<"*", "/">>}
    IN IF ends = {} THEN Len(text) ELSE CHOOSE i \in ends : \A j \in ends : i <= j

\* The comments the tokenizer reads from a rendered comment that follows the
\* anchor on its line: one block comment, or one line comment per line.
renderedItems(anchor, rendered) ==
    IF startsWith(rendered, <<"/", "*">>)
    THEN <<[type |-> "Block", value |-> slice(rendered, 2, endOfBlock(rendered, 2)),
            sep |-> "next"]>>
    ELSE IF startsWith(rendered, <<"/", "/">>)
    THEN LET lines == split(rendered)
         IN [k \in 1..Len(lines) |->
               [type |-> "Line",
                value |-> sliceFrom(lines[k], (IF k = 1 THEN 0 ELSE Len(anchor)) + 2),
                sep |-> "next"]]
    ELSE <<>>

renderedSource(anchor, rendered) == sourceOf(renderedItems(anchor, rendered), anchor)

\* getCommentLines of the first group of the rendered comment.
normalized(anchor, rendered) ==
    LET sc == renderedSource(anchor, rendered)
    IN getCommentLines(sc, groupComments(sc, filteredComments(sc), 1, <<>>)[1])

\* A comment that starts at the anchor, for getInitialOffset.
anchored(anchor) ==
    [sc |-> [text |-> anchor],
     comment |-> [range |-> <<Len(anchor), Len(anchor)>>,
                  loc |-> [start |-> [line |-> 1, column |-> Len(anchor)]]]]

ContentLines ==
    {<<>>, <<" ">>, <<"a">>, <<" ", "a">>, <<"*", " ", "a">>, <<"/", "a">>, <<"a", "*">>,
     <<"a", " ">>}

Anchors == {<<>>, <<" ">>, <<" ", " ">>}

InitRoundTrip ==
    /\ rtLines \in SeqsOf(ContentLines, 0, MaxContent)
    /\ rtAnchor \in Anchors
    /\ rtForm = "none"
    /\ rtOut = <<>>
    /\ pc = "created"
    /\ NoRule
    /\ NoBare

Render(form, rendered) ==
    /\ rtForm = "none"
    /\ renderedItems(rtAnchor, rendered) # <<>>
    /\ rtForm' = form
    /\ rtOut' = normalized(rtAnchor, rendered)
    /\ UNCHANGED <<rtLines, rtAnchor, sourceCode, option, checkJSDoc, commentGroups,
                   checkedGroups, reports, pc, bbValue, bbAnchor, bbOut>>

RenderStarredBlock ==
    LET a == anchored(rtAnchor)
    IN Render("starred-block", convertToStarredBlock(a.sc, a.comment, rtLines))

RenderBareBlock ==
    LET a == anchored(rtAnchor)
    IN Render("bare-block", convertToBlock(a.sc, a.comment, rtLines))

RenderSeparateLines ==
    LET a == anchored(rtAnchor)
    IN Render("separate-lines", convertToSeparateLines(a.sc, a.comment, rtLines))

NextRoundTrip == RenderStarredBlock \/ RenderBareBlock \/ RenderSeparateLines

SpecRoundTrip == InitRoundTrip /\ [][NextRoundTrip]_vars

----------------------------------------------------------------------------
(* processBareBlockComment on its own. *)

BareLines ==
    {<<>>, <<" ">>, <<"a">>, <<" ", "a">>, <<" ", " ", "a">>, <<" ", " ", " ", "a">>,
     <<" ", " ", " ", " ", "a">>, <<" ", "*", " ", "a">>, <<"*", "a">>,
     <<" ", " ", "*", " ", " ", "a">>, <<" ", " ", " ", " ", " ", " ", "a", " ">>}

BareValues == {join(ls, <<NL>>) : ls \in SeqsOf(BareLines, 1, MaxBare)}

InitBare ==
    /\ bbValue \in BareValues
    /\ bbAnchor \in Anchors
    /\ bbOut = <<>>
    /\ pc = "created"
    /\ NoRule
    /\ NoRoundTrip

ProcessBare ==
    /\ pc = "created"
    /\ bbOut' = bareBlockLines(bbValue, bbAnchor)
    /\ pc' = "done"
    /\ UNCHANGED <<bbValue, bbAnchor, sourceCode, option, checkJSDoc, commentGroups,
                   checkedGroups, reports, rtLines, rtAnchor, rtForm, rtOut>>

NextBare == ProcessBare

SpecBare == InitBare /\ [][NextBare]_vars

----------------------------------------------------------------------------
(* Properties. *)

Done == pc = "done"

\* The content lines of the i-th checked group.
linesOf(i) == getCommentLines(sourceCode, checkedGroups[i])

\* Two ranges share no byte; an empty range is an insertion point.
disjoint(r1, r2) == r1[2] <= r2[1] \/ r2[2] <= r1[1]

\* A token follows the block comment on its last line.
followedOnLastLine(comment) ==
    LET tokenAfter == getTokenAfter(sourceCode, comment)
    IN tokenAfter # <<>> /\ tokenAfter[1].loc.start.line = comment.loc.end.line

(* C1: a checked group with a content line that contains the end-of-block  *)
(* sequence gets no report that carries a rewrite, whatever the target     *)
(* style and checkJSDoc.                                                   *)
C1_GuardCorrectness ==
    Done => \A i \in 1..Len(checkedGroups) :
                hasEndOfBlock(linesOf(i)) =>
                    \A k \in 1..Len(reports[i]) : reports[i][k].fix = <<>>

\* A run of line comments with the end-of-block sequence has been checked
\* against bare-block.
C1_Witness ==
    /\ Done
    /\ option = "bare-block"
    /\ \E i \in 1..Len(checkedGroups) :
          Len(checkedGroups[i]) > 1 /\ hasEndOfBlock(linesOf(i))

\* The group is not in the target style (form mismatch).
violatesStyle(i) ==
    LET g == checkedGroups[i]
    IN \/ option \in {"starred-block", "bare-block"} /\ Len(g) > 1
       \/ option = "bare-block" /\ isStarredBlockComment(g)
       \/ option = "separate-lines" /\ g[1].type = "Block"
             /\ (checkJSDoc \/ ~isJSDocComment(g))

\* The reason for which the checker of the target style withholds the rewrite.
unsafeRewrite(i) ==
    LET g == checkedGroups[i]
    IN \/ option \in {"starred-block", "bare-block"} /\ hasEndOfBlock(linesOf(i))
       \/ option = "starred-block" /\ Len(g) > 1
             /\ \E k \in 1..Len(linesOf(i)) : startsWith(linesOf(i)[k], <<"/">>)
       \/ option = "separate-lines" /\ g[1].type = "Block" /\ followedOnLastLine(g[1])

(* C2 as stated: a group that violates the target style and whose rewrite  *)
(* is unsafe is still reported, with a null rewrite.                       *)
C2_WithheldFixIsReported ==
    Done => \A i \in 1..Len(checkedGroups) :
                violatesStyle(i) /\ unsafeRewrite(i) =>
                    /\ reports[i] # <<>>
                    /\ \A k \in 1..Len(reports[i]) : reports[i][k].fix = <<>>

(* C2 amended: only a run of line comments with a content line that begins *)
(* with "/" (and none with the end-of-block sequence), checked against     *)
(* starred-block, is reported without rewrite (one expectedBlock report).  *)
(* A group with the end-of-block sequence in a content line (starred-block,*)
(* bare-block) and a block comment followed by a token on its last line    *)
(* (separate-lines) get no report; neither does, under bare-block, a block *)
(* comment with text on the line of its closing delimiter.                 *)
C2_WithheldFix ==
    Done => \A i \in 1..Len(checkedGroups) :
                LET g == checkedGroups[i]
                    valueLines == split(g[1].value)
                IN /\ (/\ option = "starred-block"
                       /\ Len(g) > 1
                       /\ ~hasEndOfBlock(linesOf(i))
                       /\ \E k \in 1..Len(linesOf(i)) : startsWith(linesOf(i)[k], <<"/">>))
                      => /\ Len(reports[i]) = 1
                         /\ reports[i][1].messageId = "expectedBlock"
                         /\ reports[i][1].fix = <<>>
                   /\ (option \in {"starred-block", "bare-block"} /\ hasEndOfBlock(linesOf(i)))
                      => reports[i] = <<>>
                   /\ (option = "separate-lines" /\ g[1].type = "Block"
                          /\ followedOnLastLine(g[1]))
                      => reports[i] = <<>>
                   /\ (option = "bare-block" /\ g[1].type = "Block"
                          /\ hasText(valueLines[Len(valueLines)]))
                      => reports[i] = <<>>

\* A run of line comments with a content line that begins with "/" has been
\* reported without rewrite under starred-block.
C2_Witness ==
    /\ Done
    /\ option = "starred-block"
    /\ \E i \in 1..Len(checkedGroups) :
          /\ Len(checkedGroups[i]) > 1
          /\ \E k \in 1..Len(linesOf(i)) : startsWith(linesOf(i)[k], <<"/">>)
          /\ Len(reports[i]) = 1
          /\ reports[i][1].fix = <<>>

\* The content line lists of the round-trip claim: no line is whitespace only
\* and no line contains the end-of-block sequence.
roundTripInput ==
    /\ \A i \in 1..Len(rtLines) : hasText(rtLines[i])
    /\ ~hasEndOfBlock(rtLines)

(* C3 as stated, for a list of at least one line: rendering a content line *)
(* list with any of the three converters and normalizing the result gives  *)
(* the list back.                                                          *)
C3_RoundTrip ==
    (rtForm # "none" /\ roundTripInput /\ Len(rtLines) >= 1) => rtOut = rtLines

(* C3 amended: a non-empty content line list comes back unchanged from     *)
(* to-starred-block and from to-separate-lines.  From to-bare-block it     *)
(* comes back with as many lines, every line after the first unchanged but *)
(* the last one, which has a space appended.                               *)
C3_RoundTripStarredSeparate ==
    (rtForm # "none" /\ roundTripInput /\ Len(rtLines) >= 1) =>
        IF rtForm \in {"starred-block", "separate-lines"}
        THEN rtOut = rtLines
        ELSE /\ Len(rtOut) = Len(rtLines)
             /\ \A i \in 2..Len(rtLines) :
                   rtOut[i] = IF i = Len(rtLines) THEN rtLines[i] \o <<" ">> ELSE rtLines[i]

\* A list of two lines, one with leading whitespace, has gone through
\* to-starred-block and back.
C3_Witness ==
    /\ rtForm = "starred-block"
    /\ roundTripInput
    /\ Len(rtLines) = 2
    /\ \E i \in 1..2 : startsWith(rtLines[i], <<" ">>)
    /\ rtOut = rtLines

\* The text of a token.
textOf(comment) == tokenText(comment.type, comment.value)

\* The group has the text to-starred-block renders for its own content lines.
isRenderedStarredBlock(i) ==
    LET g == checkedGroups[i]
    IN /\ g[1].type = "Block"
       /\ textOf(g[1]) = convertToStarredBlock(sourceCode, g[1], linesOf(i))

\* A block comment on several lines none of whose interior lines is starred.
hasNoLineStars(i) ==
    LET g == checkedGroups[i]
        valueLines == split(g[1].value)
    IN /\ g[1].type = "Block"
       /\ Len(valueLines) > 1
       /\ \A k \in 2..(Len(valueLines) - 1) : ~isStarredCommentLine(valueLines[k])

\* The block comment of two lines, both blank.
isEmptyTwoLineBlock(i) ==
    LET valueLines == split(checkedGroups[i][1].value)
    IN Len(valueLines) = 2 /\ isBlank(valueLines[1]) /\ isBlank(valueLines[2])

(* C4 as stated: a group already in the target style gets no report.       *)
C4_Idempotence ==
    Done => \A i \in 1..Len(checkedGroups) :
                (\/ option = "starred-block" /\ isRenderedStarredBlock(i)
                 \/ option = "bare-block" /\ hasNoLineStars(i)
                 \/ option = "separate-lines" /\ checkedGroups[i][1].type = "Line")
                => reports[i] = <<>>

(* C4 amended: as stated, except that under bare-block the block comment   *)
(* of two blank lines (nothing but a line break between the delimiters) is *)
(* taken for a starred block and reported.                                 *)
C4_IdempotenceButEmptyBlock ==
    Done => \A i \in 1..Len(checkedGroups) :
                (\/ option = "starred-block" /\ isRenderedStarredBlock(i)
                 \/ option = "bare-block" /\ hasNoLineStars(i) /\ ~isEmptyTwoLineBlock(i)
                 \/ option = "separate-lines" /\ checkedGroups[i][1].type = "Line")
                => reports[i] = <<>>

\* An indented block comment in the rendered starred form has been checked
\* against starred-block.
C4_Witness ==
    /\ Done
    /\ option = "starred-block"
    /\ \E i \in 1..Len(checkedGroups) :
          /\ isRenderedStarredBlock(i)
          /\ checkedGroups[i][1].loc.start.column > 0
          /\ reports[i] = <<>>

\* Every report of the pass.
allReports == flat(reports)

(* C5: a group of one comment that starts and ends on the same line is not *)
(* checked, and no report of the pass lies on its line.                    *)
C5_BoundaryExclusion ==
    Done => \A i \in 1..Len(commentGroups) :
                LET g == commentGroups[i]
                IN (Len(g) = 1 /\ g[1].loc.start.line = g[1].loc.end.line) =>
                      /\ \A j \in 1..Len(checkedGroups) : checkedGroups[j] # g
                      /\ \A k \in 1..Len(allReports) :
                            \/ allReports[k].loc.end.line < g[1].loc.start.line
                            \/ allReports[k].loc.start.line > g[1].loc.start.line

\* A block comment on one line, alone on its line, went through the pass next
\* to a group that was checked.
C5_Witness ==
    /\ Done
    /\ checkedGroups # <<>>
    /\ \E i \in 1..Len(commentGroups) :
          /\ Len(commentGroups[i]) = 1
          /\ commentGroups[i][1].type = "Block"
          /\ commentGroups[i][1].loc.start.line = commentGroups[i][1].loc.end.line

(* C6: after the fold every group is non-empty; a group that starts with a *)
(* block comment is that comment alone; a group that starts with a line    *)
(* comment holds line comments only, each after the first starting on the  *)
(* line after the previous one ends, with the previous one as the token    *)
(* immediately before it.                                                  *)
C6_GroupInvariant ==
    Done => \A i \in 1..Len(commentGroups) :
                LET g == commentGroups[i]
                IN /\ Len(g) >= 1
                   /\ g[1].type = "Block" => Len(g) = 1
                   /\ g[1].type = "Line" =>
                         \A k \in 1..Len(g) :
                            /\ g[k].type = "Line"
                            /\ k > 1 =>
                                  /\ g[k].loc.start.line = g[k - 1].loc.end.line + 1
                                  /\ getTokenBefore(sourceCode, g[k]) = <<g[k - 1]>>

\* The fold merged two line comments and kept a third comment apart.
C6_Witness ==
    /\ Done
    /\ Len(commentGroups) >= 2
    /\ \E i \in 1..Len(commentGroups) : Len(commentGroups[i]) >= 2

(* C7: under separate-lines a JSDoc-shaped block comment gets no report    *)
(* when checkJSDoc is off; when it is on and no token follows the comment  *)
(* on its last line, it gets one expectedLines report whose rewrite        *)
(* replaces the comment by to-separate-lines of its content lines without  *)
(* the first and the last.  The comment of the lines "*", " * a", " " at   *)
(* column 0 is rewritten to "// a".                                        *)
C7_JSDocSeparateLines ==
    (Done /\ option = "separate-lines") =>
        \A i \in 1..Len(checkedGroups) :
            LET g == checkedGroups[i]
            IN isJSDocComment(g) =>
                 /\ ~checkJSDoc => reports[i] = <<>>
                 /\ (checkJSDoc /\ ~followedOnLastLine(g[1])) =>
                       /\ Len(reports[i]) = 1
                       /\ reports[i][1].messageId = "expectedLines"
                       /\ reports[i][1].fix =
                            <<[range |-> g[1].range,
                               text |-> convertToSeparateLines(sourceCode, g[1],
                                            SubSeq(linesOf(i), 2, Len(linesOf(i)) - 1))]>>
                       /\ (g[1].value = <<"*", NL, " ", "*", " ", "a", NL, " ">>
                              /\ g[1].loc.start.column = 0)
                          => reports[i][1].fix[1].text = <<"/", "/", " ", "a">>

\* The JSDoc comment of the example has been checked with checkJSDoc on.
C7_Witness ==
    /\ Done
    /\ option = "separate-lines"
    /\ checkJSDoc
    /\ Len(checkedGroups) = 1
    /\ checkedGroups[1][1].value = <<"*", NL, " ", "*", " ", "a", NL, " ">>
    /\ checkedGroups[1][1].loc.start.column = 0
    /\ Len(reports[1]) = 1

\* The unit is the block comment of the lines "", " a", " " at column 0, checked
\* against starred-block.
isMissingStarExample ==
    /\ Done
    /\ option = "starred-block"
    /\ sourceCode.text = <<"/", "*", NL, " ", "a", NL, " ", "*", "/">>

(* C8 as stated: the example gets two reports, both missingStar with a     *)
(* rewrite.                                                                *)
C8_TwoMissingStars ==
    isMissingStarExample =>
        /\ Len(reports[1]) = 2
        /\ \A k \in 1..Len(reports[1]) :
              reports[1][k].messageId = "missingStar" /\ reports[1][k].fix # <<>>

(* C8 amended: the example gets one report, missingStar on its one         *)
(* interior line " a", whose rewrite replaces the leading whitespace of    *)
(* that line by " *"; the closing line " */" starts with " *" and is not   *)
(* reported.                                                               *)
C8_OneMissingStar ==
    isMissingStarExample =>
        /\ Len(reports[1]) = 1
        /\ reports[1][1].messageId = "missingStar"
        /\ reports[1][1].loc.start.line = 2
        /\ reports[1][1].fix = <<[range |-> <<3, 4>>, text |-> <<" ", "*">>]>>

C8_Witness == isMissingStarExample /\ Len(reports) = 1

\* The lines of the value given to processBareBlockComment, blank ones emptied.
bbLines == [i \in 1..Len(split(bbValue)) |-> blankify(split(bbValue)[i])]

\* The anchor width: the anchor indentation and three more columns.
bbWidth == Len(bbAnchor) + 3

\* The length of the correction offset: the largest shortfall of a line with
\* text, other than the first, against the anchor width.
bbCorrection ==
    LET shortfalls == {bbWidth - lineOffsetLen(bbLines[i]) :
                          i \in {k \in 2..Len(bbLines) :
                                    hasText(bbLines[k]) /\ lineOffsetLen(bbLines[k]) < bbWidth}}
    IN IF shortfalls = {} THEN 0 ELSE CHOOSE m \in shortfalls : \A x \in shortfalls : x <= m

\* The last n characters of s.
lastChars(s, n) == SubSeq(s, Len(s) - n + 1, Len(s))

(* C9 as stated: a line whose offset is longer than the anchor width keeps *)
(* the last (offset length - width + correction) characters of its offset, *)
(* a line whose offset is shorter gets the correction offset, a line whose *)
(* offset has the width gets nothing, each before its content.             *)
C9_BareBlockRendering ==
    (Done /\ bbValue # <<>>) =>
        /\ Len(bbOut) = Len(bbLines)
        /\ \A i \in 1..Len(bbLines) :
              LET n == lineOffsetLen(bbLines[i])
                  content == SubSeq(bbLines[i], n + 1, Len(bbLines[i]))
              IN bbOut[i] =
                   IF n > bbWidth
                   THEN lastChars(SubSeq(bbLines[i], 1, n), n - bbWidth + bbCorrection) \o content
                   ELSE IF n < bbWidth
                   THEN lastChars(bbAnchor \o <<" ", " ", " ">>, bbCorrection) \o content
                   ELSE content

(* C9 amended: as stated, except that a line whose offset is shorter than  *)
(* the anchor width is its content alone: the correction offset is not put *)
(* before it.                                                              *)
C9_BareBlockRenderingShortAlone ==
    (Done /\ bbValue # <<>>) =>
        /\ Len(bbOut) = Len(bbLines)
        /\ \A i \in 1..Len(bbLines) :
              LET n == lineOffsetLen(bbLines[i])
                  content == SubSeq(bbLines[i], n + 1, Len(bbLines[i]))
              IN bbOut[i] =
                   IF n > bbWidth
                   THEN lastChars(SubSeq(bbLines[i], 1, n), n - bbWidth + bbCorrection) \o content
                   ELSE content

\* A comment with a line short of the anchor width and a line beyond it has
\* been processed.
C9_Witness ==
    /\ Done
    /\ bbValue # <<>>
    /\ bbCorrection > 0
    /\ \E i \in 2..Len(bbLines) : lineOffsetLen(bbLines[i]) > bbWidth
    /\ \E i \in 2..Len(bbLines) : hasText(bbLines[i]) /\ lineOffsetLen(bbLines[i]) < bbWidth

\* The rewrites of the reports of the i-th checked group.
fixesOf(i) == flat([k \in 1..Len(reports[i]) |-> reports[i][k].fix])

(* C10: a report carries at most one rewrite; rewrites of different groups *)
(* cover disjoint ranges; under starred-block the rewrites of one block    *)
(* comment are pairwise disjoint, and the rewrite of a missingStar or      *)
(* alignment report lies inside the line the report is on.                 *)
C10_DisjointRewrites ==
    Done =>
        /\ \A k \in 1..Len(allReports) : Len(allReports[k].fix) <= 1
        /\ \A i, j \in 1..Len(checkedGroups) :
              i # j => \A a \in 1..Len(fixesOf(i)), b \in 1..Len(fixesOf(j)) :
                          disjoint(fixesOf(i)[a].range, fixesOf(j)[b].range)
        /\ option = "starred-block" =>
              \A i \in 1..Len(checkedGroups) :
                 checkedGroups[i][1].type = "Block" =>
                    /\ \A a, b \in 1..Len(fixesOf(i)) :
                          a # b => disjoint(fixesOf(i)[a].range, fixesOf(i)[b].range)
                    /\ \A k \in 1..Len(reports[i]) :
                          LET r == reports[i][k]
                              lineStart == getIndexFromLoc(sourceCode, r.loc.start.line, 0)
                          IN r.messageId \in {"missingStar", "alignment"} =>
                                /\ r.fix # <<>>
                                /\ lineStart <= r.fix[1].range[1]
                                /\ r.fix[1].range[2]
                                     <= lineStart + Len(sourceCode.lines[r.loc.start.line])

\* A block comment has been reported for its opening line, its closing line and
\* a line in between, under starred-block.
C10_Witness ==
    /\ Done
    /\ option = "starred-block"
    /\ \E i \in 1..Len(checkedGroups) :
          /\ \E k \in 1..Len(reports[i]) : reports[i][k].messageId = "startNewline"
          /\ \E k \in 1..Len(reports[i]) : reports[i][k].messageId = "endNewline"
          /\ \E k \in 1..Len(reports[i]) : reports[i][k].messageId \in {"missingStar", "alignment"}

====
